---- MODULE Spec2Model ----
(***************************************************************************)
(* Command execution engine of ShellSuccess (src/command.py): the          *)
(* classifier, the ping adapter, the dispatcher run_command, the           *)
(* pseudo-terminal executor run_interactive_command and the batch executor *)
(* run_command_interactive with its signal handling, modelled as a state   *)
(* machine of the invoking Python process, its process-wide signal table   *)
(* and the child's process group; and, around it, the command mapping      *)
(* store (src/CommendMapper.py) and the executor that consults the         *)
(* text-completion service (src/ShellSuccess.py).                          *)
(*                                                                         *)
(* Text is a sequence of one-character strings; a Python str command is    *)
(* [type |-> "str", val |-> text] and a Python list command is             *)
(* [type |-> "list", val |-> sequence of texts].  The module imports pty   *)
(* (command.py line 67), which exists on Unix-like systems only, so every  *)
(* sys.platform test is taken on its Unix-like branch.                     *)
(***************************************************************************)
EXTENDS Integers, Sequences, FiniteSets

VARIABLES
    pc,                \* control point of the invoking process
    entry,             \* the function the caller invoked
    call_args,         \* the interactive and check arguments the caller gave
    command,           \* local `command` of the running function
    caller_command,    \* the command object the caller passed, as the caller sees it
    interactive,       \* run_command's `interactive`: "None", "True" or "False"
    timeout,           \* run_command_interactive's timeout in poll intervals; 0 is None/0
    check,             \* run_command_interactive's check
    handlers,          \* the process-wide signal handler table
    original_handlers, \* the dict run_command_interactive saves the old handlers in
    process,           \* the child (process group leader): "None", "running", ...
    reaped,            \* the leader's exit status was collected by poll()/wait()/communicate()
    exitcode,          \* the status the leader ended with
    descendant,        \* a background descendant in the leader's group: "none", "alive", "dead"
    stdout_pipe,       \* chunks written to the child's stdout and not yet read
    stderr_pipe,       \* the same for stderr
    stdout_data,       \* run_command_interactive's stdout_data
    stderr_data,       \* run_command_interactive's stderr_data
    written,           \* the chunks the child has written so far, to either stream
    ready,             \* the streams select returned, still to be served by the for loop
    activity,          \* the main loop's `activity`
    elapsed,           \* time.time() - start_time, in poll intervals
    in_handler,        \* signal_handler is inside its time.sleep(0.2)
    sig_index,         \* position of the handler installation / restoration loop
    exc,               \* the exception in flight, "none" when there is none
    master,            \* chunks the child wrote to the pseudo-terminal, not yet read
    stdout_queue,      \* run_interactive_command's stdout_queue
    to_child,          \* user input run_interactive_command wrote to the master side
    outcome,           \* what the call handed to its caller
    command_map,       \* CommandMapper.command_mappings, the table in memory
    config_file,       \* the mapping file: missing, corrupt, or the JSON of a table
    command_mappings,  \* DeepSeekCLIExecutor.command_mappings, the table it loaded
    service,           \* the text-completion service: "up" or "down"
    final_cmd          \* execute_command's final_cmd

vars == <<pc, entry, call_args, command, caller_command, interactive, timeout, check, handlers,
          original_handlers, process, reaped, exitcode, descendant, stdout_pipe,
          stderr_pipe, stdout_data, stderr_data, written, ready, activity, elapsed,
          in_handler, sig_index, exc, master, stdout_queue, to_child, outcome,
          command_map, config_file, command_mappings, service, final_cmd>>

\* the state of the mapping store and of the executor around the engine
shell_vars == <<command_map, config_file, command_mappings, service, final_cmd>>

-----------------------------------------------------------------------------
(* Bounds of the model *)

\* chunks of output one child writes
MaxWrites == 2
\* user inputs relayed in one pseudo-terminal session
MaxInputs == 2
\* cap of the elapsed-time counter, in poll intervals
MaxElapsed == 4
\* largest timeout a caller passes, in poll intervals
MaxTimeout == 1

-----------------------------------------------------------------------------
(* Text: str.lower, str.split, ' '.join, `in` *)

UpperChars == <<"A", "B", "C", "D", "E", "F", "G", "H", "I", "J", "K", "L", "M", "N", "O", "P", "Q", "R", "S", "T", "U", "V", "W", "X", "Y", "Z">>

LowerChars == <<"a", "b", "c", "d", "e", "f", "g", "h", "i", "j", "k", "l", "m", "n", "o", "p", "q", "r", "s", "t", "u", "v", "w", "x", "y", "z">>

\* one character of str.lower()
lowerChar(c) ==
    IF \E i \in 1..26 : UpperChars[i] = c
    THEN LowerChars[CHOOSE i \in 1..26 : UpperChars[i] = c]
    ELSE c

\* str.lower()
lower(s) == [i \in 1..Len(s) |-> lowerChar(s[i])]

\* needle in haystack, for two str
Contains(haystack, needle) ==
    \E i \in 0..(Len(haystack) - Len(needle)) :
        \A j \in 1..Len(needle) : haystack[i + j] = needle[j]

RECURSIVE split(_)
\* str.split(): the maximal runs of non-blank characters
split(s) ==
    IF s = <<>> THEN <<>>
    ELSE IF Head(s) = " " THEN split(Tail(s))
    ELSE LET blanks == {i \in 1..Len(s) : s[i] = " "}
             n == IF blanks = {} THEN Len(s)
                  ELSE (CHOOSE i \in blanks : \A k \in blanks : i <= k) - 1
         IN  <<SubSeq(s, 1, n)>> \o split(SubSeq(s, n + 1, Len(s)))

RECURSIVE join(_)
\* ' '.join(list)
join(l) ==
    IF l = <<>> THEN <<>>
    ELSE IF Len(l) = 1 THEN l[1]
    ELSE l[1] \o <<" ">> \o join(Tail(l))

Str(text) == [type |-> "str", val |-> text]
List(tokens) == [type |-> "list", val |-> tokens]

-----------------------------------------------------------------------------
(* Command Classifier *)

interactive_commands ==
    {
      <<"v", "i", "m">>, <<"v", "i">>, <<"n", "a", "n", "o">>,
      <<"e", "m", "a", "c", "s">>, <<"t", "o", "p">>, <<"h", "t", "o", "p">>,
      <<"b", "t", "m">>, <<"l", "e", "s", "s">>, <<"m", "o", "r", "e">>,
      <<"m", "a", "n">>, <<"i", "p", "y", "t", "h", "o", "n">>, <<"p", "y", "t", "h", "o", "n">>,
      <<"p", "y", "t", "h", "o", "n", "3">>, <<"b", "a", "s", "h">>, <<"z", "s", "h">>,
      <<"f", "i", "s", "h">>, <<"s", "h">>, <<"s", "s", "h">>,
      <<"t", "e", "l", "n", "e", "t">>, <<"f", "t", "p">>, <<"m", "y", "s", "q", "l">>,
      <<"p", "s", "q", "l">>, <<"s", "q", "l", "i", "t", "e", "3">>
    }

\* Mutation of _is_interactive_command: the case folding is forgotten.
IsInteractiveNoFold(c) ==
    (IF c.type = "str" THEN c.val ELSE c.val[1]) \in interactive_commands

_is_interactive_command(c) ==
    LET cmd == IF c.type = "str" THEN lower(c.val) ELSE lower(c.val[1])
    IN  cmd \in interactive_commands

-----------------------------------------------------------------------------
(* Platform Command Adapter *)

count_flag == <<"-", "c">>

PING == <<"p", "i", "n", "g">>

\* Mutation of insert1: the flag is appended at the end of the list.
insertLast(l, x) == Append(l, x)

\* list.insert(1, x): Python clamps the index to the list's length
insert1(l, x) ==
    IF l = <<>> THEN <<x>> ELSE <<l[1], x>> \o Tail(l)

\* list.insert(2, x)
insert2(l, x) ==
    IF Len(l) < 2 THEN Append(l, x) ELSE <<l[1], l[2], x>> \o SubSeq(l, 3, Len(l))

\* Mutation of adaptedList: the membership test of line 406 is forgotten.
adaptedListAlways(c) ==
    LET cmd_list == IF c.type = "list" THEN c.val ELSE split(c.val)
    IN  insert2(insert1(cmd_list, count_flag), <<"4">>)

\* cmd_list after lines 402-408
adaptedList(c) ==
    LET cmd_list == IF c.type = "list" THEN c.val ELSE split(c.val)
    IN  IF \E i \in 1..Len(cmd_list) : cmd_list[i] = count_flag
        THEN cmd_list
        ELSE insert2(insert1(cmd_list, count_flag), <<"4">>)

_adapt_ping_command(c) ==
    IF c.type = "list" THEN List(adaptedList(c)) ELSE Str(join(adaptedList(c)))

\* the condition of line 291
pingTriggers(c) ==
    Contains(IF c.type = "list" THEN c.val[1] ELSE c.val, PING)

\* the value `command` has after lines 290-292
preprocessed(c) == IF pingTriggers(c) THEN _adapt_ping_command(c) ELSE c

\* the caller's object after lines 290-292: cmd_list aliases a list argument,
\* so the inserts of lines 407-408 act on the caller's list; a str is immutable
callerAfterPreprocess(c) ==
    IF c.type = "list" /\ pingTriggers(c) THEN List(adaptedList(c)) ELSE c

-----------------------------------------------------------------------------
(* Command mapping store: CommandMapper (src/CommendMapper.py)               *)
(* A table is a set of entries [cmd, platform, mapped] with at most one      *)
(* entry for a command and a platform.                                       *)

LS == <<"l", "s">>

DIR == <<"d", "i", "r">>

Entry(cmd, platform, mapped) == [cmd |-> cmd, platform |-> platform, mapped |-> mapped]

\* the table _load_config returns when there is no file to read (lines 31-38)
DefaultConfig ==
    { Entry(LS, "windows", DIR), Entry(LS, "linux", LS), Entry(LS, "darwin", LS) }

\* no file at config_path
NoFile == [state |-> "missing", table |-> {}]

\* a file that json.load rejects
CorruptFile == [state |-> "corrupt", table |-> {}]

\* the file json.dump writes of a table
FileOf(table) == [state |-> "json", table |-> table]

\* _load_config, lines 24-38: the table of the file; the default table when
\* the file is missing or holds no JSON. What json.dump wrote of a table of
\* str keys and str values, json.load reads back as the same table.
_load_config(file) ==
    IF file.state \in {"missing", "corrupt"} THEN DefaultConfig ELSE file.table

valid_platforms == {"windows", "linux", "darwin"}

\* original_cmd in table
HasCommand(table, cmd) == \E e \in table : e.cmd = cmd

\* platform in table[original_cmd]
HasEntry(table, cmd, platform) ==
    \E e \in table : e.cmd = cmd /\ e.platform = platform

\* table[original_cmd][platform]
Mapped(table, cmd, platform) ==
    (CHOOSE e \in table : e.cmd = cmd /\ e.platform = platform).mapped

\* the table after table[original_cmd][platform] = mapped_cmd
WithEntry(table, cmd, platform, mapped) ==
    {e \in table : ~(e.cmd = cmd /\ e.platform = platform)}
        \cup {Entry(cmd, platform, mapped)}

\* Mutation of return_code: a replaced value is reported as a new entry.
return_code_always_new(table, cmd, platform, mapped) ==
    IF platform \notin valid_platforms THEN 1
    ELSE IF HasEntry(table, cmd, platform) /\ Mapped(table, cmd, platform) = mapped THEN 2
    ELSE 0

\* add_mapping's code before the file is written, lines 86-104
return_code(table, cmd, platform, mapped) ==
    IF platform \notin valid_platforms THEN 1
    ELSE IF HasEntry(table, cmd, platform)
    THEN IF Mapped(table, cmd, platform) = mapped THEN 2 ELSE 3
    ELSE 0

\* the table in memory after add_mapping, lines 86-104
tableAfterAdd(table, cmd, platform, mapped) ==
    IF return_code(table, cmd, platform, mapped) \in {0, 3}
    THEN WithEntry(table, cmd, platform, mapped)
    ELSE table

\* how _save_config (lines 40-43) can end: the table is written; open fails
\* and the file is as before; the write fails after open has emptied the file
SaveOutcomes == {"saved", "not_opened", "truncated"}

\* the file after _save_config of table ends with outcome w
fileAfterSave(file, table, w) ==
    IF w = "saved" THEN FileOf(table)
    ELSE IF w = "truncated" THEN CorruptFile
    ELSE file

\* what add_mapping returns, lines 106-112, when _save_config ends with w
add_mapping_code(table, cmd, platform, mapped, w) ==
    IF return_code(table, cmd, platform, mapped) \in {1, 2}
    THEN return_code(table, cmd, platform, mapped)
    ELSE IF w = "saved" THEN return_code(table, cmd, platform, mapped)
    ELSE 4

\* the file after add_mapping: written only on the paths that reach line 108
fileAfterAdd(file, table, cmd, platform, mapped, w) ==
    IF return_code(table, cmd, platform, mapped) \in {1, 2}
    THEN file
    ELSE fileAfterSave(file, tableAfterAdd(table, cmd, platform, mapped), w)

-----------------------------------------------------------------------------
(* Python values handed to the caller *)

\* a str result; text is a sequence of chunks of output
Text(t) == [none |-> FALSE, text |-> t]

\* None in the place of a str
NoText == [none |-> TRUE, text |-> <<>>]

Triple(code, out, err) == [kind |-> "triple", code |-> code, out |-> out, err |-> err]

\* the value None
NoneValue == [kind |-> "None", code |-> 0, out |-> NoText, err |-> NoText]

Pending == [how |-> "pending", exc |-> "none", value |-> NoneValue]
Returned(v) == [how |-> "return", exc |-> "none", value |-> v]
Raised(e) == [how |-> "raise", exc |-> e, value |-> NoneValue]

\* CalledProcessError(returncode, command, stdout, stderr) of lines 383-385
RaisedWith(e, v) == [how |-> "raise", exc |-> e, value |-> v]

RECURSIVE Flatten(_)
\* ''.join(chunks)
Flatten(chunks) ==
    IF chunks = <<>> THEN <<>> ELSE Head(chunks) \o Flatten(Tail(chunks))

-----------------------------------------------------------------------------
(* Signals and the child's process group *)

Signals == {"SIGINT", "SIGTERM", "SIGTSTP"}

\* the order of the list of line 311
SigOrder == <<"SIGINT", "SIGTERM", "SIGTSTP">>

SIGTERM == 15
SIGKILL == 9

\* timeout of the readiness wait (0.1 s), the unit of time
PollTicks == 1
\* time.sleep(0.2) of the signal handler
SleepTicks == 2
\* communicate(timeout=0.5)
DrainTicks == 5

\* the elapsed time n poll intervals later. The clock is read only by line 345,
\* and only when a timeout was given, so time is tracked only then.
Later(n) ==
    IF timeout = 0 THEN elapsed
    ELSE IF elapsed + n > MaxElapsed THEN MaxElapsed ELSE elapsed + n

\* some process still holds the write ends of the child's pipes
WritersOpen == process = "running" \/ descendant = "alive"

\* some process of the child's group is alive
GroupAlive == process = "running" \/ descendant = "alive"

Pipe(s) == IF s = "stdout" THEN stdout_pipe ELSE stderr_pipe

\* select reports a pipe that holds data or is at end-of-file
Readable(s) == Pipe(s) # <<>> \/ ~WritersOpen

\* os.killpg(pgid, SIGKILL): no member of the group survives
KillGroup ==
    /\ process' = IF process = "running" THEN "killed" ELSE process
    /\ exitcode' = IF process = "running" THEN -SIGKILL ELSE exitcode
    /\ descendant' = IF descendant = "alive" THEN "dead" ELSE descendant

\* the pseudo-terminal executor is the one running
PtyMode ==
    \/ entry = "run_interactive_command"
    \/ entry = "run_command" /\ interactive = "True"

\* a call is in progress and its frame has not ended
Active == pc \notin {"idle", "unwind", "done", "terminated", "classified"}

\* the invoking process executes its own code at p (it is not inside a handler)
At(p) == pc = p /\ ~in_handler

-----------------------------------------------------------------------------
(* Leaving an executor, and where a raised exception goes *)

\* what run_command's except clauses (lines 38-44) catch
DispatcherCatches == {"TimeoutExpired", "KeyboardInterrupt", "CalledProcessError"}

\* The executor ends with exception e ("none": it returns v).
Leave(e, v) ==
    /\ pc' = "unwind"
    /\ exc' = e
    /\ outcome' = IF e = "none" THEN Returned(v)
                  ELSE IF e = "CalledProcessError" THEN RaisedWith(e, v)
                  ELSE Raised(e)

\* control points inside the try block of run_command_interactive (lines 314-387)
TryRegion == {"spawn", "loop_poll", "deadline", "select", "serve", "after", "drain"}

\* Exception e is raised at the current control point.
Throw(e) ==
    /\ IF pc \in TryRegion
       THEN /\ pc' = IF e = "TimeoutExpired" THEN "except_timeout" ELSE "finally"
            /\ exc' = e
            /\ outcome' = outcome
       ELSE IF pc = "except_timeout"
       THEN /\ pc' = "finally"
            /\ exc' = e
            /\ outcome' = outcome
       ELSE IF pc = "i_loop"
       THEN /\ pc' = "i_wait"
            /\ exc' = e
            /\ outcome' = outcome
       ELSE IF pc = "rc_except"
       THEN /\ pc' = "done"
            /\ exc' = "none"
            /\ outcome' = Raised(e)
       ELSE Leave(e, NoneValue)
    /\ sig_index' = IF pc' = "finally" THEN 1 ELSE sig_index

-----------------------------------------------------------------------------
(* Initial state and the calls a caller makes *)

NoCommand == Str(<<>>)

\* the keyword arguments of a call: interactive and check, as the caller gave them
Args(i, k) == [interactive |-> i, check |-> k]

InitHandlers == [s \in Signals |-> "orig"]

\* no call has been made yet
NothingRunning ==
    /\ pc = "idle"
    /\ entry = "none"
    /\ call_args = Args("None", FALSE)
    /\ interactive = "None"
    /\ timeout = 0
    /\ check = FALSE
    /\ handlers = InitHandlers
    /\ original_handlers = <<>>
    /\ process = "None"
    /\ reaped = FALSE
    /\ exitcode = 0
    /\ descendant = "none"
    /\ stdout_pipe = <<>>
    /\ stderr_pipe = <<>>
    /\ stdout_data = <<>>
    /\ stderr_data = <<>>
    /\ written = <<>>
    /\ ready = {}
    /\ activity = FALSE
    /\ elapsed = 0
    /\ in_handler = FALSE
    /\ sig_index = 0
    /\ exc = "none"
    /\ master = <<>>
    /\ stdout_queue = <<>>
    /\ to_child = <<>>
    /\ outcome = Pending

\* the mapping store and the executor around the engine before any use: no
\* mapping file yet, so both tables are the default one
ShellAtRest ==
    /\ config_file = NoFile
    /\ command_map = _load_config(config_file)
    /\ command_mappings = _load_config(config_file)
    /\ service = "down"
    /\ final_cmd = <<>>

Init ==
    /\ command = NoCommand
    /\ caller_command = NoCommand
    /\ NothingRunning
    /\ ShellAtRest

\* the commands the callers of the model pass: an editor, a ping of host h as
\* an argument list, and a command line that has ping as its argument
VimCommand == List(<<<<"v", "i", "m">>>>)

PingCommand == List(<<PING, <<"h">>>>)

EchoCommand == Str(<<"e", "c", "h", "o", " ", "p", "i", "n", "g">>)

\* the calls of run_command: classified or overridden either way, check
\* requested or not
RunCommandCalls ==
    { [command |-> VimCommand, interactive |-> "None", check |-> FALSE],
      [command |-> VimCommand, interactive |-> "False", check |-> FALSE],
      [command |-> PingCommand, interactive |-> "None", check |-> TRUE],
      [command |-> PingCommand, interactive |-> "True", check |-> FALSE] }

\* the direct calls of run_command_interactive: with and without a timeout,
\* with check, and with a command line given as a str
BatchCalls ==
    { [command |-> PingCommand, timeout |-> t, check |-> FALSE] : t \in 0..MaxTimeout }
        \cup { [command |-> PingCommand, timeout |-> 0, check |-> TRUE],
               [command |-> EchoCommand, timeout |-> 0, check |-> FALSE] }

\* the direct calls of run_interactive_command
PtyCalls == { VimCommand }

\* A new call starts with fresh locals; a handler closure an earlier call left
\* in the signal table is from now on the closure of a finished call.
FreshLocals ==
    /\ handlers' = [s \in Signals |-> IF handlers[s] = "cur" THEN "stale" ELSE handlers[s]]
    /\ original_handlers' = <<>>
    /\ process' = "None"
    /\ reaped' = FALSE
    /\ exitcode' = 0
    /\ descendant' = "none"
    /\ stdout_pipe' = <<>>
    /\ stderr_pipe' = <<>>
    /\ stdout_data' = <<>>
    /\ stderr_data' = <<>>
    /\ written' = <<>>
    /\ ready' = {}
    /\ activity' = FALSE
    /\ elapsed' = 0
    /\ in_handler' = FALSE
    /\ exc' = "none"
    /\ master' = <<>>
    /\ stdout_queue' = <<>>
    /\ to_child' = <<>>
    /\ outcome' = Pending

\* The batch executor is entered with command c: lines 290-297.
EnterBatch(c) ==
    /\ command' = preprocessed(c)
    /\ caller_command' = callerAfterPreprocess(c)
    /\ pc' = "install"
    /\ sig_index' = 1

\* The pseudo-terminal executor is entered with command c.
EnterPty(c) ==
    /\ command' = c
    /\ caller_command' = c
    /\ pc' = "i_spawn"
    /\ sig_index' = 0

\* Mutation of interactiveAfterDetect: the classifier is asked whatever the
\* override says.
interactiveAlwaysDetected(c, i) ==
    IF _is_interactive_command(c) THEN "True" ELSE "False"

\* the value of `interactive` after lines 28-29
interactiveAfterDetect(c, i) ==
    IF i = "None"
    THEN IF _is_interactive_command(c) THEN "True" ELSE "False"
    ELSE i

\* the arguments of a call of run_command
RunArgs(c, i, k) == [command |-> c, interactive |-> i, check |-> k]

\* Mutation of CallRunCommand: the dispatcher gives the executor a timeout.
CallRunCommandWithTimeout(c, i, k) ==
    /\ pc \in {"idle", "done"}
    /\ UNCHANGED shell_vars
    /\ entry' = "run_command"
    /\ call_args' = RunArgs(c, i, k)
    /\ interactive' = interactiveAfterDetect(c, i)
    /\ timeout' = MaxTimeout
    /\ check' = FALSE
    /\ FreshLocals
    /\ IF interactive' = "True" THEN EnterPty(c) ELSE EnterBatch(c)

\* run_command(c, interactive=i, check=k), lines 28-37: the executor is called
\* with the command alone, so timeout, shell and check take their defaults.
CallRunCommand(c, i, k) ==
    /\ pc \in {"idle", "done"}
    /\ UNCHANGED shell_vars
    /\ entry' = "run_command"
    /\ call_args' = RunArgs(c, i, k)
    /\ interactive' = interactiveAfterDetect(c, i)
    /\ timeout' = 0
    /\ check' = FALSE
    /\ FreshLocals
    /\ IF interactive' = "True" THEN EnterPty(c) ELSE EnterBatch(c)

\* run_command_interactive(c, timeout=t, check=k) called directly
CallBatch(c, t, k) ==
    /\ pc \in {"idle", "done"}
    /\ UNCHANGED shell_vars
    /\ entry' = "run_command_interactive"
    /\ call_args' = Args("None", k)
    /\ interactive' = "None"
    /\ timeout' = t
    /\ check' = k
    /\ FreshLocals
    /\ EnterBatch(c)

\* run_interactive_command(c) called directly
CallPty(c) ==
    /\ pc \in {"idle", "done"}
    /\ UNCHANGED shell_vars
    /\ entry' = "run_interactive_command"
    /\ call_args' = Args("None", FALSE)
    /\ interactive' = "None"
    /\ timeout' = 0
    /\ check' = FALSE
    /\ FreshLocals
    /\ EnterPty(c)

-----------------------------------------------------------------------------
(* run_command_interactive *)

\* one round of the loop of lines 311-312
InstallHandler ==
    /\ At("install")
    /\ original_handlers' = Append(original_handlers, handlers[SigOrder[sig_index]])
    /\ handlers' = [handlers EXCEPT ![SigOrder[sig_index]] = "cur"]
    /\ IF sig_index = Len(SigOrder)
       THEN pc' = "spawn" /\ sig_index' = 0
       ELSE pc' = pc /\ sig_index' = sig_index + 1
    /\ UNCHANGED <<shell_vars, entry, call_args, command, caller_command, interactive, timeout, check, process,
                   reaped, exitcode, descendant, stdout_pipe, stderr_pipe, stdout_data,
                   stderr_data, written, ready, activity, elapsed, in_handler, exc,
                   master, stdout_queue, to_child, outcome>>

\* subprocess.Popen of lines 316-326; found = FALSE is the executable that
\* cannot be spawned (FileNotFoundError)
Spawn ==
    /\ At("spawn")
    /\ \E found \in BOOLEAN :
         IF found
         THEN /\ process' = "running"
              /\ pc' = "loop_poll"
              /\ UNCHANGED <<exc, outcome, sig_index>>
         ELSE /\ Throw("FileNotFoundError")
              /\ UNCHANGED process
    /\ elapsed' = 0
    /\ UNCHANGED <<shell_vars, entry, call_args, command, caller_command, interactive, timeout, check, handlers,
                   original_handlers, reaped, exitcode, descendant, stdout_pipe,
                   stderr_pipe, stdout_data, stderr_data, written, ready, activity,
                   in_handler, master, stdout_queue, to_child>>

\* lines 341-342: the exit is checked first
LoopPoll ==
    /\ At("loop_poll")
    /\ IF process = "running"
       THEN pc' = "deadline" /\ UNCHANGED reaped
       ELSE pc' = "drain" /\ reaped' = TRUE
    /\ UNCHANGED <<shell_vars, entry, call_args, command, caller_command, interactive, timeout, check, handlers,
                   original_handlers, process, exitcode, descendant, stdout_pipe,
                   stderr_pipe, stdout_data, stderr_data, written, ready, activity,
                   elapsed, in_handler, sig_index, exc, master, stdout_queue, to_child,
                   outcome>>

\* the condition of line 345
DeadlinePassed == timeout # 0 /\ elapsed > timeout

\* lines 345-346
Deadline ==
    /\ At("deadline")
    /\ IF DeadlinePassed
       THEN Throw("TimeoutExpired")
       ELSE pc' = "select" /\ UNCHANGED <<exc, outcome, sig_index>>
    /\ UNCHANGED <<shell_vars, entry, call_args, command, caller_command, interactive, timeout, check, handlers,
                   original_handlers, process, reaped, exitcode, descendant, stdout_pipe,
                   stderr_pipe, stdout_data, stderr_data, written, ready, activity,
                   elapsed, in_handler, master, stdout_queue, to_child>>

\* lines 349-357: select returns the readable pipes at once, or nothing after
\* its timeout of one poll interval
Select ==
    /\ At("select")
    /\ LET r == {s \in {"stdout", "stderr"} : Readable(s)}
       IN  /\ ready' = r
           /\ IF r = {}
              THEN pc' = "after" /\ elapsed' = Later(PollTicks)
              ELSE pc' = "serve" /\ UNCHANGED elapsed
    /\ activity' = FALSE
    /\ UNCHANGED <<shell_vars, entry, call_args, command, caller_command, interactive, timeout, check, handlers,
                   original_handlers, process, reaped, exitcode, descendant, stdout_pipe,
                   stderr_pipe, stdout_data, stderr_data, written, in_handler, sig_index,
                   exc, master, stdout_queue, to_child, outcome>>

\* the stream the for loop of line 359 serves next: select lists stdout first
NextStream == IF "stdout" \in ready THEN "stdout" ELSE "stderr"

RECURSIVE universal_newlines(_)
\* the text a pipe opened with universal_newlines=True (line 322) hands out
\* for the characters t: "\r\n" and "\r" are read as "\n"
universal_newlines(t) ==
    IF t = <<>> THEN <<>>
    ELSE IF Head(t) = "\r"
    THEN <<"\n">> \o universal_newlines(IF Len(t) > 1 /\ t[2] = "\n"
                                         THEN SubSeq(t, 3, Len(t))
                                         ELSE Tail(t))
    ELSE <<Head(t)>> \o universal_newlines(Tail(t))

\* a chunk as stream.read and communicate return it
decoded(chunk) == [chunk EXCEPT !.text = universal_newlines(chunk.text)]

\* Mutation of bufferAfterRead: what was read is put in front of the buffer.
bufferPrepended(buffer, data) ==
    IF data = <<>> THEN buffer
    ELSE <<[i \in 1..Len(data) |-> decoded(data[i])]>> \o buffer

\* the buffer after read_available (lines 328-336) ran to its end on a pipe
\* holding `data`: the reads return what was written, then '' at end-of-file
bufferAfterRead(buffer, data) ==
    IF data = <<>> THEN buffer
    ELSE Append(buffer, [i \in 1..Len(data) |-> decoded(data[i])])

\* the value read_available returns, line 336
readResult(buffer) == buffer # <<>> /\ buffer[Len(buffer)] # <<>>

\* read_available on the next ready stream (lines 359-363). stream.read(n) on
\* the pipe is a blocking read: it returns before n characters arrived only at
\* end-of-file, and the loop of line 330 ends only on an empty read, so the
\* call ends only once every writer has closed the pipe.
ReadAvailable ==
    /\ At("serve")
    /\ ready # {}
    /\ ~WritersOpen
    /\ LET s == NextStream
           out == IF s = "stdout" THEN bufferAfterRead(stdout_data, stdout_pipe)
                  ELSE stdout_data
           err == IF s = "stderr" THEN bufferAfterRead(stderr_data, stderr_pipe)
                  ELSE stderr_data
       IN  /\ stdout_data' = out
           /\ stderr_data' = err
           /\ stdout_pipe' = IF s = "stdout" THEN <<>> ELSE stdout_pipe
           /\ stderr_pipe' = IF s = "stderr" THEN <<>> ELSE stderr_pipe
           /\ activity' = (readResult(IF s = "stdout" THEN out ELSE err) \/ activity)
           /\ ready' = ready \ {s}
           /\ pc' = IF ready' = {} THEN "after" ELSE "serve"
    /\ UNCHANGED <<shell_vars, entry, call_args, command, caller_command, interactive, timeout, check, handlers,
                   original_handlers, process, reaped, exitcode, descendant, written,
                   elapsed, in_handler, sig_index, exc, master, stdout_queue, to_child,
                   outcome>>

\* one round of the loop of lines 330-335 in which stream.read returns a full
\* block (the child wrote at least as many characters as the read asks for):
\* the block is appended and the loop reads again
ReadChunk ==
    /\ At("serve")
    /\ ready # {}
    /\ Pipe(NextStream) # <<>>
    /\ LET s == NextStream
       IN  /\ stdout_data' = IF s = "stdout"
                              THEN Append(stdout_data, <<decoded(Head(stdout_pipe))>>)
                              ELSE stdout_data
           /\ stderr_data' = IF s = "stderr"
                              THEN Append(stderr_data, <<decoded(Head(stderr_pipe))>>)
                              ELSE stderr_data
           /\ stdout_pipe' = IF s = "stdout" THEN Tail(stdout_pipe) ELSE stdout_pipe
           /\ stderr_pipe' = IF s = "stderr" THEN Tail(stderr_pipe) ELSE stderr_pipe
    /\ UNCHANGED <<shell_vars, pc, entry, call_args, command, caller_command, interactive, timeout,
                   check, handlers, original_handlers, process, reaped, exitcode,
                   descendant, written, ready, activity, elapsed, in_handler, sig_index,
                   exc, master, stdout_queue, to_child, outcome>>

\* time passes while stream.read blocks on a pipe a writer still holds open
ReadBlocks ==
    /\ At("serve")
    /\ ready # {}
    /\ WritersOpen
    /\ timeout # 0
    /\ elapsed < MaxElapsed
    /\ elapsed' = elapsed + 1
    /\ UNCHANGED <<shell_vars, pc, entry, call_args, command, caller_command, interactive, timeout, check,
                   handlers, original_handlers, process, reaped, exitcode, descendant,
                   stdout_pipe, stderr_pipe, stdout_data, stderr_data, written, ready,
                   activity, in_handler, sig_index, exc, master, stdout_queue, to_child,
                   outcome>>

\* stream.read raises: the pipe is decoded as text (universal_newlines) and
\* the child wrote bytes that are no text
ReadFails ==
    /\ At("serve")
    /\ ready # {}
    /\ Pipe(NextStream) # <<>>
    /\ Throw("UnicodeDecodeError")
    /\ UNCHANGED <<shell_vars, entry, call_args, command, caller_command, interactive, timeout, check, handlers,
                   original_handlers, process, reaped, exitcode, descendant, stdout_pipe,
                   stderr_pipe, stdout_data, stderr_data, written, ready, activity,
                   elapsed, in_handler, master, stdout_queue, to_child>>

\* lines 366-367
AfterReads ==
    /\ At("after")
    /\ IF ~activity /\ process # "running"
       THEN pc' = "drain" /\ reaped' = TRUE
       ELSE pc' = "loop_poll" /\ UNCHANGED reaped
    /\ UNCHANGED <<shell_vars, entry, call_args, command, caller_command, interactive, timeout, check, handlers,
                   original_handlers, process, exitcode, descendant, stdout_pipe,
                   stderr_pipe, stdout_data, stderr_data, written, ready, activity,
                   elapsed, in_handler, sig_index, exc, master, stdout_queue, to_child,
                   outcome>>

\* lines 372-387 when communicate(timeout=0.5) sees both pipes at end-of-file:
\* what was left in them is appended, then the check of line 382
DrainDone ==
    /\ At("drain")
    /\ ~WritersOpen
    /\ stdout_data' = bufferAfterRead(stdout_data, stdout_pipe)
    /\ stderr_data' = bufferAfterRead(stderr_data, stderr_pipe)
    /\ stdout_pipe' = <<>>
    /\ stderr_pipe' = <<>>
    /\ reaped' = TRUE
    /\ pc' = "finally"
    /\ sig_index' = 1
    /\ exc' = IF check /\ exitcode # 0 THEN "CalledProcessError" ELSE "none"
    /\ UNCHANGED <<shell_vars, entry, call_args, command, caller_command, interactive, timeout, check, handlers,
                   original_handlers, process, exitcode, descendant, written, ready,
                   activity, elapsed, in_handler, master, stdout_queue, to_child, outcome>>

\* line 372 when a pipe is still held open after 0.5 s: communicate raises
DrainTimesOut ==
    /\ At("drain")
    /\ WritersOpen
    /\ elapsed' = Later(DrainTicks)
    /\ Throw("TimeoutExpired")
    /\ UNCHANGED <<shell_vars, entry, call_args, command, caller_command, interactive, timeout, check, handlers,
                   original_handlers, process, reaped, exitcode, descendant, stdout_pipe,
                   stderr_pipe, stdout_data, stderr_data, written, ready, activity,
                   in_handler, master, stdout_queue, to_child>>

\* lines 389-392: the group is killed only if poll() finds the leader alive
ExceptTimeout ==
    /\ At("except_timeout")
    /\ IF process = "running"
       THEN KillGroup /\ UNCHANGED reaped
       ELSE reaped' = TRUE /\ UNCHANGED <<process, exitcode, descendant>>
    /\ pc' = "finally"
    /\ sig_index' = 1
    /\ UNCHANGED <<shell_vars, entry, call_args, command, caller_command, interactive, timeout, check, handlers,
                   original_handlers, stdout_pipe, stderr_pipe, stdout_data, stderr_data,
                   written, ready, activity, elapsed, in_handler, exc, master,
                   stdout_queue, to_child, outcome>>

\* the value of line 387
BatchResult ==
    Triple(exitcode, Text(Flatten(stdout_data)), Text(Flatten(stderr_data)))

\* one round of the loop of lines 395-396; after the last one the function
\* returns its result or lets the exception in flight go on
RestoreHandler ==
    /\ At("finally")
    /\ handlers' = [handlers EXCEPT ![SigOrder[sig_index]] = original_handlers[sig_index]]
    /\ IF sig_index = Len(original_handlers)
       THEN Leave(exc, BatchResult) /\ UNCHANGED sig_index
       ELSE /\ sig_index' = sig_index + 1
            /\ UNCHANGED <<pc, exc, outcome>>
    /\ UNCHANGED <<shell_vars, entry, call_args, command, caller_command, interactive, timeout, check,
                   original_handlers, process, reaped, exitcode, descendant, stdout_pipe,
                   stderr_pipe, stdout_data, stderr_data, written, ready, activity,
                   elapsed, in_handler, master, stdout_queue, to_child>>

-----------------------------------------------------------------------------
(* Signals delivered to the invoking process *)

\* signal_handler up to its time.sleep (lines 302-304): SIGTERM goes to the
\* whole group, whose members each die of it or survive it (a process may
\* ignore or catch SIGTERM). With no child, or a dead one, line 307 is next.
HandlerStart ==
    IF process = "running"
    THEN /\ \E leader_dies \in BOOLEAN :
              /\ process' = IF leader_dies THEN "terminated" ELSE "running"
              /\ exitcode' = IF leader_dies THEN -SIGTERM ELSE exitcode
         /\ \E d \in IF descendant = "alive" THEN {"alive", "dead"} ELSE {descendant} :
              descendant' = d
         /\ in_handler' = TRUE
         /\ UNCHANGED <<pc, exc, outcome, sig_index, reaped>>
    ELSE /\ reaped' = (process # "None")
         /\ Throw("KeyboardInterrupt")
         /\ UNCHANGED <<process, exitcode, descendant, in_handler>>

\* A signal arrives while a call is in progress. The table decides: the
\* closure of the running call ("cur"), the closure of a finished call
\* ("stale": the child it refers to belongs to that call, for the running
\* call it only raises), or the handler Python had at start ("orig": SIGINT
\* raises KeyboardInterrupt, SIGTERM ends the invoking process, SIGTSTP stops
\* it until it is continued, which changes nothing here). A signal during the
\* handler's own sleep runs the handler again and ends in the same
\* KeyboardInterrupt, so it is not a step of its own.
Signal(sig) ==
    /\ Active
    /\ ~in_handler
    /\ CASE handlers[sig] = "cur" -> HandlerStart
         [] handlers[sig] = "stale" ->
              /\ Throw("KeyboardInterrupt")
              /\ UNCHANGED <<process, exitcode, descendant, in_handler, reaped>>
         [] OTHER ->
              /\ sig # "SIGTSTP"
              /\ IF sig = "SIGINT"
                 THEN Throw("KeyboardInterrupt")
                 ELSE pc' = "terminated" /\ UNCHANGED <<exc, outcome, sig_index>>
              /\ UNCHANGED <<process, exitcode, descendant, in_handler, reaped>>
    /\ UNCHANGED <<shell_vars, entry, call_args, command, caller_command, interactive, timeout, check, handlers,
                   original_handlers, stdout_pipe, stderr_pipe, stdout_data, stderr_data,
                   written, ready, activity, elapsed, master, stdout_queue, to_child>>

\* signal_handler after its sleep (lines 305-307): the group is killed only
\* if poll() finds the leader alive, then KeyboardInterrupt is raised
HandlerFinish ==
    /\ in_handler
    /\ in_handler' = FALSE
    /\ elapsed' = Later(SleepTicks)
    /\ IF process = "running"
       THEN KillGroup /\ UNCHANGED reaped
       ELSE reaped' = TRUE /\ UNCHANGED <<process, exitcode, descendant>>
    /\ Throw("KeyboardInterrupt")
    /\ UNCHANGED <<shell_vars, entry, call_args, command, caller_command, interactive, timeout, check, handlers,
                   original_handlers, stdout_pipe, stderr_pipe, stdout_data, stderr_data,
                   written, ready, activity, master, stdout_queue, to_child>>

-----------------------------------------------------------------------------
(* The child's process group *)

\* the n-th chunk of output of the child: characters t written to stream s
Chunk(n, s, t) == [seq |-> n, stream |-> s, text |-> t]

\* what a chunk holds: a word, or a line that ends in carriage return and
\* line feed
ChunkTexts == { <<"a">>, <<"a", "\r", "\n">> }

\* the child writes its next chunk of output, of the same kind as its chunks
\* before; on the pseudo-terminal both of its streams are the one terminal,
\* whose relay passes every text on alike
ChildWrites(s, t) ==
    /\ Active
    /\ process = "running"
    /\ Len(written) < MaxWrites
    /\ written # <<>> => t = written[1].text
    /\ written' = Append(written, Chunk(Len(written) + 1, s, t))
    /\ IF PtyMode
       THEN /\ s = "stdout"
            /\ t = <<"a">>
            /\ master' = Append(master, Chunk(Len(written'), s, t))
            /\ UNCHANGED <<stdout_pipe, stderr_pipe>>
       ELSE /\ stdout_pipe' = IF s = "stdout"
                              THEN Append(stdout_pipe, Chunk(Len(written'), s, t))
                              ELSE stdout_pipe
            /\ stderr_pipe' = IF s = "stderr"
                              THEN Append(stderr_pipe, Chunk(Len(written'), s, t))
                              ELSE stderr_pipe
            /\ UNCHANGED master
    /\ UNCHANGED <<shell_vars, pc, entry, call_args, command, caller_command, interactive, timeout, check,
                   handlers, original_handlers, process, reaped, exitcode, descendant,
                   stdout_data, stderr_data, ready, activity, elapsed, in_handler,
                   sig_index, exc, stdout_queue, to_child, outcome>>

\* the child of a batch run starts a background process that inherits its
\* pipes and its group
ChildForks ==
    /\ Active
    /\ ~PtyMode
    /\ process = "running"
    /\ descendant = "none"
    /\ descendant' = "alive"
    /\ UNCHANGED <<shell_vars, pc, entry, call_args, command, caller_command, interactive, timeout, check,
                   handlers, original_handlers, process, reaped, exitcode, stdout_pipe,
                   stderr_pipe, stdout_data, stderr_data, written, ready, activity,
                   elapsed, in_handler, sig_index, exc, master, stdout_queue, to_child,
                   outcome>>

\* the child exits with status code
ChildExits(code) ==
    /\ Active
    /\ process = "running"
    /\ process' = "exited"
    /\ exitcode' = code
    /\ UNCHANGED <<shell_vars, pc, entry, call_args, command, caller_command, interactive, timeout, check,
                   handlers, original_handlers, reaped, descendant, stdout_pipe,
                   stderr_pipe, stdout_data, stderr_data, written, ready, activity,
                   elapsed, in_handler, sig_index, exc, master, stdout_queue, to_child,
                   outcome>>

\* the background process ends on its own
DescendantExits ==
    /\ Active
    /\ descendant = "alive"
    /\ descendant' = "dead"
    /\ UNCHANGED <<shell_vars, pc, entry, call_args, command, caller_command, interactive, timeout, check,
                   handlers, original_handlers, process, reaped, exitcode, stdout_pipe,
                   stderr_pipe, stdout_data, stderr_data, written, ready, activity,
                   elapsed, in_handler, sig_index, exc, master, stdout_queue, to_child,
                   outcome>>

-----------------------------------------------------------------------------
(* run_interactive_command *)

\* lines 75-89; found = FALSE is the executable that cannot be spawned
PtySpawn ==
    /\ At("i_spawn")
    /\ \E found \in BOOLEAN :
         IF found
         THEN /\ process' = "running"
              /\ pc' = "i_loop"
              /\ UNCHANGED <<exc, outcome, sig_index>>
         ELSE /\ Throw("FileNotFoundError")
              /\ UNCHANGED process
    /\ UNCHANGED <<shell_vars, entry, call_args, command, caller_command, interactive, timeout, check, handlers,
                   original_handlers, reaped, exitcode, descendant, stdout_pipe,
                   stderr_pipe, stdout_data, stderr_data, written, ready, activity,
                   elapsed, in_handler, master, stdout_queue, to_child>>

\* lines 95-104 with data on the master side
MasterRead ==
    /\ At("i_loop")
    /\ master # <<>>
    /\ stdout_queue' = Append(stdout_queue, <<Head(master)>>)
    /\ master' = Tail(master)
    /\ UNCHANGED <<shell_vars, pc, entry, call_args, command, caller_command, interactive, timeout, check,
                   handlers, original_handlers, process, reaped, exitcode, descendant,
                   stdout_pipe, stderr_pipe, stdout_data, stderr_data, written, ready,
                   activity, elapsed, in_handler, sig_index, exc, to_child, outcome>>

\* lines 95-99 once the child is gone and the master side is empty: os.read
\* returns b'' on some Unix-like systems (the loop breaks) and fails with
\* EIO on others (OSError is raised inside the try)
MasterEof ==
    /\ At("i_loop")
    /\ master = <<>>
    /\ process # "running"
    /\ \E eio \in BOOLEAN :
         IF eio
         THEN Throw("OSError")
         ELSE pc' = "i_wait" /\ UNCHANGED <<exc, outcome, sig_index>>
    /\ UNCHANGED <<shell_vars, entry, call_args, command, caller_command, interactive, timeout, check, handlers,
                   original_handlers, process, reaped, exitcode, descendant, stdout_pipe,
                   stderr_pipe, stdout_data, stderr_data, written, ready, activity,
                   elapsed, in_handler, master, stdout_queue, to_child>>

\* what the user types: ordinary bytes, bytes with ESC, bytes with ":wq"
InputKinds == {"plain", "esc", "wq"}

\* lines 106-114: the input is written to the master side; ":wq" in it breaks
UserInput(kind) ==
    /\ At("i_loop")
    /\ Len(to_child) < MaxInputs
    /\ to_child' = Append(to_child, kind)
    /\ pc' = IF kind = "wq" THEN "i_wait" ELSE "i_loop"
    /\ UNCHANGED <<shell_vars, entry, call_args, command, caller_command, interactive, timeout, check, handlers,
                   original_handlers, process, reaped, exitcode, descendant, stdout_pipe,
                   stderr_pipe, stdout_data, stderr_data, written, ready, activity,
                   elapsed, in_handler, sig_index, exc, master, stdout_queue, outcome>>

\* the value of line 125
PtyResult == Triple(exitcode, Text(Flatten(stdout_queue)), NoText)

\* Mutation of PtyWait: process.wait() is replaced by a poll, the function
\* does not block for the child.
PtyNoWait ==
    /\ At("i_wait")
    /\ reaped' = (process # "running")
    /\ Leave(exc, PtyResult)
    /\ UNCHANGED <<shell_vars, entry, call_args, command, caller_command, interactive, timeout, check, handlers,
                   original_handlers, process, exitcode, descendant, stdout_pipe,
                   stderr_pipe, stdout_data, stderr_data, written, ready, activity,
                   elapsed, in_handler, sig_index, master, stdout_queue, to_child>>

\* lines 116-125: the master side is closed and process.wait() returns once
\* the child has ended; then the result, or the exception in flight
PtyWait ==
    /\ At("i_wait")
    /\ process # "running"
    /\ reaped' = TRUE
    /\ Leave(exc, PtyResult)
    /\ UNCHANGED <<shell_vars, entry, call_args, command, caller_command, interactive, timeout, check, handlers,
                   original_handlers, process, exitcode, descendant, stdout_pipe,
                   stderr_pipe, stdout_data, stderr_data, written, ready, activity,
                   elapsed, in_handler, sig_index, master, stdout_queue, to_child>>

-----------------------------------------------------------------------------
(* The end of an executor's frame, and run_command's except clauses *)

\* The executor's frame ends: its locals are gone, the pipes and the master
\* side are closed. The child's group and the signal table are not locals.
\* Under run_command's try (line 36) the exceptions of lines 38-43 are caught;
\* anything else, and everything from the pseudo-terminal executor (line 33),
\* reaches the caller.
ExecutorEnds ==
    /\ pc = "unwind"
    /\ IF entry = "run_command" /\ interactive = "False" /\ exc \in DispatcherCatches
       THEN /\ pc' = "rc_except"
            /\ outcome' = Pending
            /\ UNCHANGED exc
       ELSE /\ pc' = "done"
            /\ exc' = "none"
            /\ UNCHANGED outcome
    /\ original_handlers' = <<>>
    /\ stdout_pipe' = <<>>
    /\ stderr_pipe' = <<>>
    /\ stdout_data' = <<>>
    /\ stderr_data' = <<>>
    /\ written' = <<>>
    /\ ready' = {}
    /\ activity' = FALSE
    /\ elapsed' = 0
    /\ sig_index' = 0
    /\ master' = <<>>
    /\ stdout_queue' = <<>>
    /\ to_child' = <<>>
    /\ UNCHANGED <<shell_vars, entry, call_args, command, caller_command, interactive, timeout, check, handlers,
                   process, reaped, exitcode, descendant, in_handler>>

\* the value of line 42
InterruptedResult == Triple(-1, Text(<<>>), NoText)

\* lines 38-44: the clause prints; only the KeyboardInterrupt clause returns a
\* value, the other two fall off the end of the function, which returns None
DispatcherExcept ==
    /\ At("rc_except")
    /\ pc' = "done"
    /\ outcome' = IF exc = "KeyboardInterrupt"
                  THEN Returned(InterruptedResult)
                  ELSE Returned(NoneValue)
    /\ exc' = "none"
    /\ UNCHANGED <<shell_vars, entry, call_args, command, caller_command, interactive, timeout, check, handlers,
                   original_handlers, process, reaped, exitcode, descendant, stdout_pipe,
                   stderr_pipe, stdout_data, stderr_data, written, ready, activity,
                   elapsed, in_handler, sig_index, master, stdout_queue, to_child>>

-----------------------------------------------------------------------------
(* The specification *)

Next ==
    \/ \E a \in RunCommandCalls : CallRunCommand(a.command, a.interactive, a.check)
    \/ \E a \in BatchCalls : CallBatch(a.command, a.timeout, a.check)
    \/ \E c \in PtyCalls : CallPty(c)
    \/ InstallHandler
    \/ Spawn
    \/ LoopPoll
    \/ Deadline
    \/ Select
    \/ ReadAvailable
    \/ ReadChunk
    \/ ReadBlocks
    \/ ReadFails
    \/ AfterReads
    \/ DrainDone
    \/ DrainTimesOut
    \/ ExceptTimeout
    \/ RestoreHandler
    \/ \E sig \in Signals : Signal(sig)
    \/ HandlerFinish
    \/ \E s \in {"stdout", "stderr"}, t \in ChunkTexts : ChildWrites(s, t)
    \/ ChildForks
    \/ \E code \in {0, 1} : ChildExits(code)
    \/ DescendantExits
    \/ PtySpawn
    \/ MasterRead
    \/ MasterEof
    \/ \E kind \in InputKinds : UserInput(kind)
    \/ PtyWait
    \/ ExecutorEnds
    \/ DispatcherExcept

Spec == Init /\ [][Next]_vars

-----------------------------------------------------------------------------
(* The classifier on its own: _is_interactive_command applied to one command *)

\* one character of str.upper(), used to write the inputs in other cases
upperChar(c) ==
    IF \E i \in 1..26 : LowerChars[i] = c
    THEN UpperChars[CHOOSE i \in 1..26 : LowerChars[i] = c]
    ELSE c

AllUpper(s) == [i \in 1..Len(s) |-> upperChar(s[i])]

Capitalized(s) == [i \in 1..Len(s) |-> IF i = 1 THEN upperChar(s[i]) ELSE s[i]]

\* lower and upper case in turn, as in "vIm"
MixedCase(s) == [i \in 1..Len(s) |-> IF i % 2 = 0 THEN upperChar(s[i]) ELSE s[i]]

\* tokens that are none of the interactive names
OtherTokens ==
    {
      <<"l", "s">>, <<"p", "i", "n", "g">>, <<"v", "i", "m", "x">>,
      <<"v">>, <<"p", "y", "t", "h", "o", "n", "s">>, <<"s", "q", "l", "i", "t", "e">>,
      <<"h", "s">>, <<"c", "a", "t">>, <<"e", "c", "h", "o">>,
      <<"t", "o", "p", "s">>
    }

\* the tokens the classifier is tried on, in four letter cases
ClassifierTokens ==
    LET base == interactive_commands \cup OtherTokens
    IN  base \cup {AllUpper(n) : n \in base} \cup {Capitalized(n) : n \in base}
             \cup {MixedCase(n) : n \in base}

\* the argument of the commands that have one, a file name
FileArgument == <<"f">>

\* the commands the classifier is tried on: every token alone and followed by
\* an argument, as a str and as a list
ClassifierInputs ==
    {Str(tok) : tok \in ClassifierTokens}
        \cup {List(<<tok>>) : tok \in ClassifierTokens}
        \cup {Str(tok \o <<" ">> \o FileArgument) : tok \in ClassifierTokens}
        \cup {List(<<tok, FileArgument>>) : tok \in ClassifierTokens}

InitClassifier ==
    /\ command \in ClassifierInputs
    /\ caller_command = command
    /\ NothingRunning
    /\ ShellAtRest

\* _is_interactive_command(command), lines 46-64
Classify ==
    /\ pc = "idle"
    /\ entry = "none"
    /\ entry' = "_is_interactive_command"
    /\ interactive' = IF _is_interactive_command(command) THEN "True" ELSE "False"
    /\ pc' = "classified"
    /\ UNCHANGED <<shell_vars, call_args, command, caller_command, timeout, check, handlers, original_handlers,
                   process, reaped, exitcode, descendant, stdout_pipe, stderr_pipe,
                   stdout_data, stderr_data, written, ready, activity, elapsed,
                   in_handler, sig_index, exc, master, stdout_queue, to_child, outcome>>

NextClassifier == Classify

SpecClassifier == InitClassifier /\ [][NextClassifier]_vars

-----------------------------------------------------------------------------
(* The adapter on its own: _adapt_ping_command, and the preprocessing of     *)
(* lines 290-292, applied twice to the command object a caller holds         *)

\* tokens that follow the command name
AdapterArguments ==
    { count_flag, <<"1", "0">>, <<"h">>, PING }

\* the command names
AdapterNames == { PING, <<"e", "c", "h", "o">> }

\* a name followed by at most two arguments
AdapterTokenLists ==
    {<<n>> : n \in AdapterNames}
        \cup {<<n, a>> : n \in AdapterNames, a \in AdapterArguments}
        \cup {<<n, a, b>> : n \in AdapterNames, a \in AdapterArguments, b \in AdapterArguments}

RECURSIVE joinWide(_)
\* the tokens written with two blanks between them
joinWide(l) ==
    IF l = <<>> THEN <<>>
    ELSE IF Len(l) = 1 THEN l[1]
    ELSE l[1] \o <<" ", " ">> \o joinWide(Tail(l))

\* every token list as a list, as a str, and as a str with wider gaps
AdapterInputs ==
    {List(l) : l \in AdapterTokenLists}
        \cup {Str(join(l)) : l \in AdapterTokenLists}
        \cup {Str(joinWide(l)) : l \in AdapterTokenLists}

InitAdapter ==
    /\ command \in AdapterInputs
    /\ caller_command = command
    /\ NothingRunning
    /\ ShellAtRest

\* the control point after one more application
Applied == IF pc = "idle" THEN "once" ELSE "twice"

\* the caller runs `command = _adapt_ping_command(command)` on the object it
\* holds, lines 399-410: cmd_list is the caller's list itself when a list is
\* passed, so the inserts show in it; the result is that same list
Adapt ==
    /\ pc \in {"idle", "once"}
    /\ entry \in {"none", "_adapt_ping_command"}
    /\ entry' = "_adapt_ping_command"
    /\ command' = _adapt_ping_command(command)
    /\ caller_command' = command'
    /\ pc' = Applied
    /\ UNCHANGED <<shell_vars, call_args, interactive, timeout, check, handlers, original_handlers, process,
                   reaped, exitcode, descendant, stdout_pipe, stderr_pipe, stdout_data,
                   stderr_data, written, ready, activity, elapsed, in_handler, sig_index,
                   exc, master, stdout_queue, to_child, outcome>>

\* the batch executor's lines 290-292 on the object the caller holds
Preprocess ==
    /\ pc \in {"idle", "once"}
    /\ entry \in {"none", "run_command_interactive"}
    /\ entry' = "run_command_interactive"
    /\ command' = preprocessed(caller_command)
    /\ caller_command' = callerAfterPreprocess(caller_command)
    /\ pc' = Applied
    /\ UNCHANGED <<shell_vars, call_args, interactive, timeout, check, handlers, original_handlers, process,
                   reaped, exitcode, descendant, stdout_pipe, stderr_pipe, stdout_data,
                   stderr_data, written, ready, activity, elapsed, in_handler, sig_index,
                   exc, master, stdout_queue, to_child, outcome>>

NextAdapter == Adapt \/ Preprocess

SpecAdapter == InitAdapter /\ [][NextAdapter]_vars

-----------------------------------------------------------------------------
(* The executor around the engine: DeepSeekCLIExecutor (src/ShellSuccess.py) *)
(* with its mapping store and the text-completion service                    *)

RECURSIVE lstrip(_)
\* the text without its leading blanks
lstrip(t) == IF t # <<>> /\ Head(t) = " " THEN lstrip(Tail(t)) ELSE t

RECURSIVE rstrip(_)
\* the text without its trailing blanks
rstrip(t) ==
    IF t # <<>> /\ t[Len(t)] = " " THEN rstrip(SubSeq(t, 1, Len(t) - 1)) ELSE t

\* str.strip()
strip(t) == rstrip(lstrip(t))

\* str.startswith
startswith(t, prefix) ==
    Len(t) >= Len(prefix) /\ SubSeq(t, 1, Len(prefix)) = prefix

RECURSIVE shlexFrom(_, _, _, _)
\* shlex.split reading the characters t, with the token begun so far, inside
\* double quotes or not: blanks outside quotes end a token, quotes group
\* characters and are dropped
shlexFrom(t, token, started, quoted) ==
    IF t = <<>> THEN (IF started THEN <<token>> ELSE <<>>)
    ELSE IF Head(t) = "\""
    THEN shlexFrom(Tail(t), token, TRUE, ~quoted)
    ELSE IF Head(t) = " " /\ ~quoted
    THEN (IF started THEN <<token>> ELSE <<>>) \o shlexFrom(Tail(t), <<>>, FALSE, FALSE)
    ELSE shlexFrom(Tail(t), Append(token, Head(t)), TRUE, quoted)

\* shlex.split(final_cmd), line 139
shlex_split(t) == shlexFrom(t, <<>>, FALSE, FALSE)

\* platform.system().lower() on the systems the engine runs on (line 22)
current_platform == "linux"

YES == <<"y", "e", "s">>

\* what _call_deepseek (lines 46-63) can return: None when the request fails,
\* else the text of the answer
ServiceAnswers ==
    IF service = "down" THEN {NoText}
    ELSE {NoText, Text(YES), Text(<<"n", "o">>), Text(DIR)}

\* a str or None is true in a condition
Truthy(v) == ~v.none /\ v.text # <<>>

\* is_command_for_current_platform, lines 65-109, for the table the executor
\* loaded and the answers the service gives to the two prompts
is_command_for_current_platform(c, table, first, second) ==
    LET base_cmd == lower(split(strip(c))[1])
    IN  IF HasCommand(table, base_cmd)
        THEN IF HasEntry(table, base_cmd, current_platform)
             THEN [native |-> FALSE,
                   translated |->
                       Text(IF Len(split(c)) > 1
                            THEN Mapped(table, base_cmd, current_platform)
                                     \o <<" ">> \o join(Tail(split(c)))
                            ELSE Mapped(table, base_cmd, current_platform))]
             ELSE [native |-> TRUE, translated |-> NoText]
        ELSE IF Truthy(first) /\ startswith(lower(first.text), YES)
        THEN [native |-> TRUE, translated |-> NoText]
        ELSE [native |-> FALSE,
              translated |-> IF Truthy(second) THEN second ELSE Text(c)]

\* the results is_command_for_current_platform can give for c, over the
\* answers of the service
Judgements(c, table) ==
    { is_command_for_current_platform(c, table, first, second) :
          first \in ServiceAnswers, second \in ServiceAnswers }

\* line 134
finalCommand(c, r) ==
    IF r.native THEN c
    ELSE IF Truthy(r.translated) THEN r.translated.text ELSE c

\* Mutation of translate_output: the answer is returned whatever it is.
translateNoFallback(output, answer) ==
    IF strip(output) = <<>> THEN Text(<<>>) ELSE answer

\* translate_output, lines 111-123, when the service returns answer
translate_output(output, answer) ==
    IF strip(output) = <<>> THEN Text(<<>>)
    ELSE IF Truthy(answer) THEN answer ELSE Text(output)

\* the command lines a user submits
UserCommands ==
    { <<"L", "S">>,
      <<"l", "s", " ", " ", "-", "l">>,
      <<"e", " ", "\"", "a", " ", " ", "b", "\"">> }

\* texts given to translate_output: an error line, a blank, a padded line
OutputTexts == { <<"e">>, <<" ">>, <<"e", " ">> }

\* the calls of add_mapping
MappingCalls ==
    { [original_cmd |-> c, platform |-> p, mapped_cmd |-> m] :
          c \in {LS, DIR}, p \in {"linux", "windows", "freebsd"}, m \in {LS, DIR} }

\* a str, an int and a (bool, Optional[str]) handed to a caller
StrValue(v) == [kind |-> "str", code |-> 0, out |-> v, err |-> NoText]

IntValue(n) == [kind |-> "int", code |-> n, out |-> NoText, err |-> NoText]

PairValue(r) == [kind |-> "pair", code |-> 0, out |-> r.translated, err |-> NoText,
                 native |-> r.native]

\* the store exists with or without a mapping file; the service is up or down
InitShell ==
    /\ command = NoCommand
    /\ caller_command = NoCommand
    /\ NothingRunning
    /\ config_file \in {NoFile, FileOf(DefaultConfig)}
    /\ command_map = _load_config(config_file)
    /\ command_mappings = _load_config(config_file)
    /\ service \in {"up", "down"}
    /\ final_cmd = <<>>

\* the variables of the engine that the executor's own steps leave alone
engine_vars == <<interactive, timeout, check, handlers, original_handlers, process, reaped,
                 exitcode, descendant, stdout_pipe, stderr_pipe, stdout_data, stderr_data,
                 written, ready, activity, elapsed, in_handler, sig_index, exc, master,
                 stdout_queue, to_child>>

\* CommandMapper.add_mapping(a.original_cmd, a.platform, a.mapped_cmd), lines 68-112
AddMapping(a) ==
    /\ pc \in {"idle", "done"}
    /\ entry' = "add_mapping"
    /\ call_args' = a
    /\ \E w \in SaveOutcomes :
         /\ outcome' = Returned(IntValue(
                add_mapping_code(command_map, a.original_cmd, a.platform, a.mapped_cmd, w)))
         /\ config_file' = fileAfterAdd(config_file, command_map, a.original_cmd,
                                        a.platform, a.mapped_cmd, w)
    /\ command_map' = tableAfterAdd(command_map, a.original_cmd, a.platform, a.mapped_cmd)
    /\ pc' = "done"
    /\ UNCHANGED <<command, caller_command, command_mappings, service, final_cmd>>
    /\ UNCHANGED engine_vars

\* is_command_for_current_platform(c) called on its own
IsCommandForCurrentPlatform(c) ==
    /\ pc \in {"idle", "done"}
    /\ entry' = "is_command_for_current_platform"
    /\ call_args' = Args("None", FALSE)
    /\ command' = Str(c)
    /\ caller_command' = Str(c)
    /\ \E r \in Judgements(c, command_mappings) : outcome' = Returned(PairValue(r))
    /\ pc' = "done"
    /\ UNCHANGED <<command_map, config_file, command_mappings, service, final_cmd>>
    /\ UNCHANGED engine_vars

\* translate_output(output) called on its own
TranslateOutput(output) ==
    /\ pc \in {"idle", "done"}
    /\ entry' = "translate_output"
    /\ call_args' = Args("None", FALSE)
    /\ command' = Str(output)
    /\ caller_command' = Str(output)
    /\ \E answer \in ServiceAnswers :
         outcome' = Returned(StrValue(translate_output(output, answer)))
    /\ pc' = "done"
    /\ UNCHANGED <<command_map, config_file, command_mappings, service, final_cmd>>
    /\ UNCHANGED engine_vars

\* execute_command(c) up to its call of run_command, lines 133-150: the
\* command is judged, split, recorded in the store with itself as its
\* mapping, the table is loaded again, and the tokens go to run_command
ExecuteCommand(c) ==
    /\ pc \in {"idle", "done"}
    /\ entry' = "execute_command"
    /\ call_args' = Args("None", FALSE)
    /\ caller_command' = Str(c)
    /\ \E r \in Judgements(c, command_mappings) : final_cmd' = finalCommand(c, r)
    /\ LET cmd_in == shlex_split(final_cmd')
       IN  /\ command' = List(cmd_in)
           /\ command_map' = tableAfterAdd(command_map, cmd_in[1], current_platform, cmd_in[1])
           /\ \E w \in SaveOutcomes :
                config_file' = fileAfterAdd(config_file, command_map, cmd_in[1],
                                            current_platform, cmd_in[1], w)
    /\ command_mappings' = _load_config(config_file')
    /\ outcome' = Pending
    /\ pc' = "x_run"
    /\ UNCHANGED service
    /\ UNCHANGED engine_vars

\* what run_command hands back to execute_command: a triple of a batch run
\* with or without text on stderr, the triple of a pseudo-terminal run, None,
\* an exception of class Exception, or KeyboardInterrupt
RunOutcomes ==
    { Returned(Triple(0, Text(<<"o">>), Text(<<>>))),
      Returned(Triple(1, Text(<<>>), Text(<<"e">>))),
      Returned(Triple(0, Text(<<"o">>), NoText)),
      Returned(NoneValue),
      Raised("FileNotFoundError"),
      Raised("KeyboardInterrupt") }

\* str(e) of the exception run_command raised
ErrorText == <<"x">>

\* stands for the text "A命令执行失败: " of line 167
FailurePrefix == <<"A", ":", " ">>

\* execute_command from the return of run_command on, lines 150-167
RunCommandEnds(r) ==
    /\ pc = "x_run"
    /\ \E answer \in ServiceAnswers :
         outcome' =
             IF r.how = "raise"
             THEN IF r.exc = "KeyboardInterrupt" THEN r
                  ELSE Returned(Triple(1, Text(<<>>),
                           Text(FailurePrefix \o translate_output(ErrorText, answer).text)))
             ELSE IF r.value.kind = "None"
             THEN Returned(Triple(1, Text(<<>>), Text(<<>>)))
             ELSE IF Truthy(r.value.err)
             THEN Returned(Triple(r.value.code, r.value.out,
                                  translate_output(r.value.err.text, answer)))
             ELSE r
    /\ pc' = "done"
    /\ UNCHANGED <<entry, call_args, command, caller_command>>
    /\ UNCHANGED shell_vars
    /\ UNCHANGED engine_vars

\* CommandMapper(), lines 9-12: a new store reads the file
NewCommandMapper ==
    /\ pc \in {"idle", "done"}
    /\ entry' = "CommandMapper"
    /\ call_args' = Args("None", FALSE)
    /\ command_map' = _load_config(config_file)
    /\ outcome' = Returned(NoneValue)
    /\ pc' = "done"
    /\ UNCHANGED <<command, caller_command, config_file, command_mappings, service, final_cmd>>
    /\ UNCHANGED engine_vars

\* the store on its own
NextMapper ==
    \/ \E a \in MappingCalls : AddMapping(a)
    \/ NewCommandMapper

SpecMapper == InitShell /\ [][NextMapper]_vars

\* the executor with its store and the service
NextShell ==
    \/ \E c \in UserCommands : IsCommandForCurrentPlatform(c)
    \/ \E output \in OutputTexts : TranslateOutput(output)
    \/ \E c \in UserCommands : ExecuteCommand(c)
    \/ \E r \in RunOutcomes : RunCommandEnds(r)

SpecShell == InitShell /\ [][NextShell]_vars

-----------------------------------------------------------------------------
(* Properties *)

\* run_command was called for a batch run and the call is over
BatchCallDone == pc = "done" /\ entry = "run_command" /\ interactive = "False"

\* a well-formed result triple was handed to the caller
TripleReturned == outcome.how = "return" /\ outcome.value.kind = "triple"

\* C1: run_command never raises and always returns a result triple, whatever
\* the executor does (normal exit, spawn failure, timeout, process failure,
\* interrupt, any other exception).
C1_DispatcherAlwaysReturnsTriple ==
    pc = "done" /\ entry = "run_command" => TripleReturned

\* C2: when a call of run_command_interactive has ended, however it ended,
\* the handlers of SIGINT, SIGTERM and SIGTSTP are the ones registered
\* before the call, so the table always has its initial value between calls.
C2_HandlersRestoredAfterCall ==
    pc = "done" => handlers = InitHandlers

\* C3: whenever run_command_interactive lets TimeoutExpired leave, no process
\* of the child's group, leader or descendant, is alive.
C3_TimeoutLeavesNoGroupMember ==
    pc = "unwind" /\ exc = "TimeoutExpired" => ~GroupAlive

\* C4: after a signal reached the handler while the child of a batch run was
\* alive (the handler terminated or killed the leader), no process of the
\* child's group is running when control is back at run_command's caller.
C4_InterruptLeavesNoGroupMember ==
    BatchCallDone /\ TripleReturned /\ process \in {"terminated", "killed"}
    => ~GroupAlive

\* C5: an interrupt during a batch run of run_command never reaches the
\* caller as an exception: the call returns the sentinel triple instead.
C5_InterruptNeverPropagates ==
    BatchCallDone /\ outcome.how = "raise" => outcome.exc # "KeyboardInterrupt"

\* C6: with a timeout t > 0 the read loop is never found with a running child
\* more than one readiness wait after the deadline: it blocks nowhere but in
\* the bounded readiness wait.
C6_DeadlineOverrunBounded ==
    (/\ timeout # 0
     /\ pc \in {"loop_poll", "deadline", "select", "serve", "after"}
     /\ process = "running")
    => elapsed <= timeout + PollTicks

\* C7: when the batch executor raised TimeoutExpired, run_command returns a
\* result triple with a non-zero exit code (not None) and no process of the
\* child's group is left running.
C7_TimeoutBecomesFailureTriple ==
    [][pc = "rc_except" /\ exc = "TimeoutExpired" /\ pc' = "done"
         => /\ outcome'.how = "return"
            /\ outcome'.value.kind = "triple"
            /\ outcome'.value.code # 0
            /\ ~GroupAlive']_vars

\* C8: whenever an executor hands a result to its caller, one child was
\* created, it has reached a terminal disposition (exited, terminated or
\* killed) and its status has been collected; no result is returned while
\* the child is still running.
C8_ResultOnlyAfterChildReaped ==
    pc = "unwind" /\ exc = "none"
    => /\ process \in {"exited", "terminated", "killed"}
       /\ reaped
       /\ outcome.value.kind = "triple"
       /\ outcome.value.code = exitcode

\* witness of C8: the batch executor returns captured output of an exited child
C8_Witness ==
    /\ pc = "unwind"
    /\ exc = "none"
    /\ entry = "run_command_interactive"
    /\ process = "exited"
    /\ reaped
    /\ stdout_data # <<>>

\* C9: a returned triple has stderr None exactly when the pseudo-terminal
\* executor ran the command; every batch result of run_command, interrupted
\* runs included, carries stderr as text.
C9_StderrAbsentIffPty ==
    pc = "done" /\ TripleReturned => (outcome.value.err.none <=> PtyMode)

\* the 23 names the claim lists
ListedNames ==
    {
      <<"v", "i", "m">>, <<"v", "i">>, <<"n", "a", "n", "o">>,
      <<"e", "m", "a", "c", "s">>, <<"t", "o", "p">>, <<"h", "t", "o", "p">>,
      <<"b", "t", "m">>, <<"l", "e", "s", "s">>, <<"m", "o", "r", "e">>,
      <<"m", "a", "n">>, <<"i", "p", "y", "t", "h", "o", "n">>, <<"p", "y", "t", "h", "o", "n">>,
      <<"p", "y", "t", "h", "o", "n", "3">>, <<"b", "a", "s", "h">>, <<"z", "s", "h">>,
      <<"f", "i", "s", "h">>, <<"s", "h">>, <<"s", "s", "h">>,
      <<"t", "e", "l", "n", "e", "t">>, <<"f", "t", "p">>, <<"m", "y", "s", "q", "l">>,
      <<"p", "s", "q", "l">>, <<"s", "q", "l", "i", "t", "e", "3">>
    }

\* two characters are the same letter in either case, or the same character
SameLetter(a, b) ==
    a = b \/ \E i \in 1..26 : {a, b} = {UpperChars[i], LowerChars[i]}

\* tok is one of the listed names written in some letter case
IsListedName(tok) ==
    \E n \in ListedNames :
        Len(n) = Len(tok) /\ \A i \in 1..Len(n) : SameLetter(tok[i], n[i])

NoBlank(text) == \A i \in 1..Len(text) : text[i] # " "

\* the command is a single token: a str without blanks or a one-element list
SingleToken(c) ==
    IF c.type = "str" THEN c.val # <<>> /\ NoBlank(c.val)
    ELSE Len(c.val) = 1 /\ NoBlank(c.val[1])

TokenOf(c) == IF c.type = "str" THEN c.val ELSE c.val[1]

\* C10: for a single-token command, str or one-element list, in any letter
\* case, the classifier answers interactive exactly when the token is one of
\* the 23 listed names, and it changes nothing else.
C10_ClassifierTable ==
    pc = "classified" /\ SingleToken(command)
    => /\ (interactive = "True") <=> IsListedName(TokenOf(command))
       /\ caller_command = command
       /\ handlers = InitHandlers
       /\ process = "None"
       /\ outcome = Pending

\* witness of C10: an upper-case name in a one-element list is interactive
C10_Witness ==
    /\ pc = "classified"
    /\ command = List(<<<<"V", "I", "M">>>>)
    /\ interactive = "True"

\* the command has arguments after its first token
HasArguments(c) ==
    IF c.type = "str" THEN Len(split(c.val)) > 1 ELSE Len(c.val) > 1

\* the first whitespace-delimited token of the command
FirstToken(c) == IF c.type = "str" THEN split(c.val)[1] ELSE c.val[1]

\* C11: for a command with arguments, given as a str or as a list, the
\* classifier gives the answer it gives for the command's first token alone.
C11_OnlyFirstTokenInspected ==
    pc = "classified" /\ HasArguments(command)
    => ((interactive = "True") <=> _is_interactive_command(Str(FirstToken(command))))

\* the tokens of a command
TokensOf(c) == IF c.type = "str" THEN split(c.val) ELSE c.val

\* the count flag is one of the tokens
HasCountFlag(t) == \E i \in 1..Len(t) : t[i] = <<"-", "c">>

\* u is t with the count flag and the value 4 put right after the name
FlagPutAfterName(t, u) ==
    /\ Len(u) = Len(t) + 2
    /\ u[1] = t[1]
    /\ u[2] = <<"-", "c">>
    /\ u[3] = <<"4">>
    /\ \A i \in 2..Len(t) : u[i + 2] = t[i]

\* C12: _adapt_ping_command on a ping command without a count-flag token
\* returns the name, then -c, then 4, then the arguments in their order; on
\* one that has the flag somewhere it returns the tokens as they were.
C12_CountFlagAfterName ==
    [][(/\ pc = "idle"
        /\ entry' = "_adapt_ping_command"
        /\ FirstToken(command) = <<"p", "i", "n", "g">>)
       => IF HasCountFlag(TokensOf(command))
          THEN TokensOf(command') = TokensOf(command)
          ELSE FlagPutAfterName(TokensOf(command), TokensOf(command'))]_vars

\* witness of C12: the flag and 4 were put between the name and two arguments
C12_Witness ==
    /\ pc = "once"
    /\ entry = "_adapt_ping_command"
    /\ command = List(<<PING, count_flag, <<"4">>, <<"1", "0">>, <<"h">>>>)

\* C13: a second application, of _adapt_ping_command or of the batch
\* executor's preprocessing, to the command the first one produced changes
\* neither the command nor the caller's object: no second flag is inserted.
C13_AdaptIdempotent ==
    [][pc = "once" /\ pc' = "twice"
       => command' = command /\ caller_command' = caller_command]_vars

\* witness of C13: the preprocessing ran twice on a caller's ping list
C13_Witness ==
    /\ pc = "twice"
    /\ entry = "run_command_interactive"
    /\ caller_command = List(<<PING, count_flag, <<"4">>, <<"h">>>>)

\* the batch executor ran for the call
BatchMode == entry \in {"run_command", "run_command_interactive"} /\ ~PtyMode

\* C14: with check requested the batch executor raises CalledProcessError,
\* carrying the exit code and the captured stdout and stderr, exactly when
\* the child exited with a non-zero code, and returns the triple otherwise;
\* run_command called with check requested never hands back the triple of a
\* child that exited with a non-zero code.
C14_CheckRaisesProcessFailure ==
    /\ pc = "unwind" /\ BatchMode /\ exc = "CalledProcessError"
       => /\ check /\ exitcode # 0
          /\ outcome = RaisedWith("CalledProcessError", BatchResult)
    /\ pc = "unwind" /\ BatchMode /\ exc = "none"
       => ~(check /\ exitcode # 0)
    /\ (/\ pc = "done" /\ BatchMode /\ call_args.check
        /\ TripleReturned /\ outcome.value.code = exitcode)
       => exitcode = 0

\* the chunks are the first Len(t) chunks the child wrote, in the order written
InOrderWritten(t) == \A i \in 1..Len(t) : t[i].seq = i

\* C15: as long as no signal interrupts run_interactive_command, its relay
\* loop is left without an exception, and only at end-of-file from the child
\* side or after forwarding input that holds ":wq"; input with an escape
\* byte is forwarded and the loop goes on. After the loop the executor waits
\* for the child and returns (its exit code, all text read from it in order,
\* None), also for a child that exits at once.
C15_RelayLoopEndsAndReturns ==
    [][exc' # "KeyboardInterrupt"
       => /\ (pc = "i_loop" /\ pc' = "i_wait")
             => /\ exc' = "none"
                /\ \/ master = <<>> /\ process # "running" /\ to_child' = to_child
                   \/ to_child' = Append(to_child, "wq")
          /\ (pc = "i_loop" /\ to_child' = Append(to_child, "esc"))
             => pc' = "i_loop"
          /\ (pc = "i_wait" /\ pc' = "unwind")
             => /\ process # "running" /\ reaped'
                /\ outcome' = Returned(Triple(exitcode, Text(Flatten(stdout_queue)), NoText))
                /\ InOrderWritten(Flatten(stdout_queue))]_vars

\* what the child wrote to stream s, in the order written
WrittenTo(s) == SelectSeq(written, LAMBDA c : c.stream = s)

\* the chunks with "\r\n" and "\r" read as "\n"
NewlinesTranslated(chunks) ==
    [i \in 1..Len(chunks) |-> [chunks[i] EXCEPT !.text = universal_newlines(chunks[i].text)]]

\* the batch executor is about to hand its triple to the caller
BatchEndsNormally == pc = "unwind" /\ BatchMode /\ exc = "none"

\* C16 as stated: a batch run that ends normally returns as stdout exactly
\* what the child wrote to its standard output, in order, the same for
\* stderr, and the child's exit code.
C16_OutputExactlyAsWritten ==
    BatchEndsNormally
    => /\ outcome.value.out = Text(WrittenTo("stdout"))
       /\ outcome.value.err = Text(WrittenTo("stderr"))
       /\ outcome.value.code = exitcode

\* C16, amended: a batch run that ends normally returns as stdout every chunk
\* the child wrote to its standard output, once and in the order written,
\* with "\r\n" and "\r" read as "\n", the same for stderr, and the child's
\* exit code.
C16_OutputCompleteInOrder ==
    BatchEndsNormally
    => /\ outcome.value.out = Text(NewlinesTranslated(WrittenTo("stdout")))
       /\ outcome.value.err = Text(NewlinesTranslated(WrittenTo("stderr")))
       /\ outcome.value.code = exitcode

\* witness of C16: two chunks of stdout came back, the first taken by the
\* read loop and the second by the read at end-of-file
C16_Witness ==
    /\ BatchEndsNormally
    /\ Len(stdout_data) = 2
    /\ Len(outcome.value.out.text) = 2
    /\ outcome.value.out.text[2].text = <<"a", "\n">>

\* base_cmd of line 73 for the command text c
BaseCmd(c) == lower(split(strip(c))[1])

\* a step that is a whole call of is_command_for_current_platform
JudgeStep == pc \in {"idle", "done"} /\ pc' = "done"
                 /\ entry' = "is_command_for_current_platform"

\* a step that is a whole call of translate_output
TranslateStep == pc \in {"idle", "done"} /\ pc' = "done" /\ entry' = "translate_output"

\* the step of execute_command that reaches its call of run_command
ExecuteStep == pc \in {"idle", "done"} /\ pc' = "x_run"

\* the command text the judgement held in outcome' leads to (line 134)
JudgedCommand == IF outcome'.value.native THEN caller_command'.val
                 ELSE outcome'.value.out.text

\* C17 as stated: with the service unavailable, is_command_for_current_platform
\* and execute_command end with the user's command text unchanged, and
\* translate_output returns its text unchanged; nothing is raised.
C17_ServiceDownKeepsOriginal ==
    [][service = "down"
       => /\ JudgeStep => outcome'.how = "return" /\ JudgedCommand = caller_command'.val
          /\ ExecuteStep => /\ final_cmd' = caller_command'.val
                            /\ command' = List(shlex_split(caller_command'.val))
          /\ TranslateStep => outcome' = Returned(StrValue(Text(caller_command'.val)))]_vars

\* C17 corrected: with the service unavailable nothing is raised; a command
\* whose base token has no entry for the current platform in the loaded table
\* is kept unchanged by is_command_for_current_platform and execute_command;
\* translate_output returns a text that is not blank unchanged, and "" for a
\* blank one.
C17_ServiceDownFallsBack ==
    [][service = "down"
       => /\ JudgeStep => outcome'.how = "return"
          /\ (JudgeStep /\ ~HasEntry(command_mappings, BaseCmd(caller_command'.val),
                                      current_platform))
             => JudgedCommand = caller_command'.val
          /\ (ExecuteStep /\ ~HasEntry(command_mappings, BaseCmd(caller_command'.val),
                                        current_platform))
             => /\ final_cmd' = caller_command'.val
                /\ command' = List(shlex_split(caller_command'.val))
          /\ TranslateStep
             => outcome' = Returned(StrValue(
                    IF strip(caller_command'.val) = <<>> THEN Text(<<>>)
                    ELSE Text(caller_command'.val)))]_vars

\* the service is down, a command with a quoted argument reached run_command
\* as the user typed it
C17_Witness ==
    /\ service = "down"
    /\ pc = "x_run"
    /\ caller_command.val = <<"e", " ", "\"", "a", " ", " ", "b", "\"">>
    /\ final_cmd = caller_command.val
    /\ command = List(<< <<"e">>, <<"a", " ", " ", "b">> >>)

\* a step that is a whole call of add_mapping
AddStep == pc \in {"idle", "done"} /\ pc' = "done" /\ entry' = "add_mapping"

\* (cmd, platform) is mapped to mapped in table
MapsTo(table, cmd, platform, mapped) ==
    HasEntry(table, cmd, platform) /\ Mapped(table, cmd, platform) = mapped

\* C18: add_mapping(cmd, platform, mapped) returns 1 and changes nothing for
\* a platform outside windows/linux/darwin; 2 and changes nothing when the
\* table maps (cmd, platform) to mapped already; 3 after replacing another
\* value; 0 after adding a new entry; 4 when the file could not be written.
\* After a call that returned 0 or 3 the file holds the table in memory, and
\* the table maps (cmd, platform) to mapped.
C18_AddMappingCodes ==
    [][AddStep
       => LET a == call_args'
              rc == outcome'.value.code
              valid == a.platform \in valid_platforms
              same == MapsTo(command_map, a.original_cmd, a.platform, a.mapped_cmd)
              unchanged == command_map' = command_map /\ config_file' = config_file
              put == command_map' = WithEntry(command_map, a.original_cmd,
                                              a.platform, a.mapped_cmd)
          IN  /\ outcome'.how = "return" /\ rc \in 0..4
              /\ rc = 1 <=> ~valid
              /\ rc = 1 => unchanged
              /\ rc = 2 <=> valid /\ same
              /\ rc = 2 => unchanged
              /\ rc = 3 => /\ HasEntry(command_map, a.original_cmd, a.platform)
                           /\ ~same /\ put
              /\ rc = 0 => ~HasEntry(command_map, a.original_cmd, a.platform) /\ put
              /\ (valid /\ ~same /\ config_file' # FileOf(command_map')) => rc = 4
              /\ rc = 4 => /\ valid /\ ~same /\ put
                           /\ config_file' \in {config_file, CorruptFile}
              /\ rc \in {0, 3}
                 => /\ config_file' = FileOf(command_map')
                    /\ _load_config(config_file') = command_map'
                    /\ MapsTo(command_map', a.original_cmd, a.platform, a.mapped_cmd)]_vars

\* a value was replaced after another entry had been added, and the file
\* holds both
C18_Witness ==
    /\ pc = "done" /\ entry = "add_mapping"
    /\ outcome = Returned(IntValue(3))
    /\ call_args = [original_cmd |-> LS, platform |-> "linux", mapped_cmd |-> DIR]
    /\ MapsTo(command_map, LS, "linux", DIR)
    /\ HasEntry(command_map, DIR, "windows")
    /\ config_file = FileOf(command_map)

\* C19: whenever an executor that spawned a child returns or raises, the
\* child has exited or an attempt to end it was made; both handlers and the
\* timeout clause kill the group of a leader that is still running, so a
\* leader left running is a child nothing tried to end.
C19_NoLiveChildLeftAlone ==
    pc = "unwind" /\ process # "None" => process # "running"

\* C20: in the batch executor a command whose first token does not contain
\* "ping" is handed to Popen as the caller gave it, whatever its later
\* arguments contain, as a str and as a list.
C20_PingOnlyByBaseToken ==
    (BatchMode /\ pc \in TryRegion /\ ~Contains(FirstToken(caller_command), PING))
    => command = caller_command

\* C21: _adapt_ping_command gives a list for a list and a str for a str, and
\* the object the caller passed to the batch executor has after the
\* preprocessing of lines 290-292 the value it had before.
C21_AdaptationNotVisibleToCaller ==
    [][/\ (pc # pc' /\ entry' = "_adapt_ping_command") => command'.type = command.type
       /\ (pc # pc' /\ entry' = "run_command_interactive")
          => /\ command'.type = caller_command.type
             /\ caller_command' = caller_command]_vars

\* a step that is a call of run_command
RunCommandStep == pc \in {"idle", "done"} /\ entry' = "run_command" /\ pc' \notin {"idle", "done"}

\* C22: a call of run_command enters the pseudo-terminal executor when the
\* override is True, the batch executor when it is False, whatever the
\* classifier answers, and without an override the pseudo-terminal executor
\* exactly when the classifier answers interactive; an executor is entered
\* only by a call, it is left once, and the call ends after it (or the
\* invoking process is ended by a signal).
C22_OneExecutorByOverrideOrClassifier ==
    [][/\ RunCommandStep
          => /\ pc' \in {"i_spawn", "install"}
             /\ call_args'.interactive = "True" => pc' = "i_spawn"
             /\ call_args'.interactive = "False" => pc' = "install"
             /\ call_args'.interactive = "None"
                => (pc' = "i_spawn" <=> _is_interactive_command(call_args'.command))
       /\ (pc' \in {"i_spawn", "install"} /\ pc' # pc) => pc \in {"idle", "done"}
       /\ pc = "unwind" => pc' \in {"unwind", "rc_except", "done", "terminated"}
       /\ pc = "rc_except" => pc' \in {"rc_except", "done", "terminated"}]_vars

\* the batch executor ran and ended for a command the classifier calls
\* interactive, because the override was False
C22_Witness ==
    /\ pc = "unwind" /\ entry = "run_command"
    /\ call_args.interactive = "False"
    /\ _is_interactive_command(call_args.command)
    /\ BatchMode /\ process # "None"

\* the batch executor is running under run_command
DispatchedBatch == entry = "run_command" /\ BatchMode /\ pc \notin {"idle", "done"}

====
